---- MODULE Spec2Model ----
(***************************************************************************)
(* gmail-fetcher: the rate-limited, retrying fetch loop.                   *)
(*   src/src/gmail_client.py  RateLimiter, GmailClient                     *)
(*   src/src/downloader.py    EmailDownloader                              *)
(* One thread of control.  A state is a point where that thread blocks:    *)
(* inside wait_if_needed, inside request.execute(), inside a backoff       *)
(* sleep, inside the persistence sink, inside the progress callback.       *)
(***************************************************************************)
EXTENDS Integers, Sequences, FiniteSets, TLC

VARIABLES
    \* Config (src/src/config.py)
    max_retries, max_results, delete_after_download, requests_per_second,
    include_attachments, archive_enabled,
    \* progress_callback argument of download_all
    has_callback,
    \* how main() presents the run: "batch", "headless" or "dashboard";
    \* "direct" when download_all is called by some other caller
    mode,
    \* the provider: sizes of the pages of the listing, in order; page p
    \* carries a nextPageToken iff p < Len(pages)
    pages,
    \* the provider: the id (message['id']) of each listed message, and
    \* the full message
    ids, mail,
    \* RateLimiter fields and the clock time.time() reads
    min_interval, last_request_time, now,
    \* observations of the limiter: returns of wait_if_needed and its sleeps
    nReturns, firstReturn, prevReturn, lastReturn, limiterSleeps,
    \* position of the thread, the remote operation in flight,
    \* locals of _execute_with_backoff
    pc, op, attempt, delay,
    \* locals of the get_messages generator
    pageIdx, idx, count,
    \* GmailClient._stats
    stats,
    \* observations of the current / last call of _execute_with_backoff
    callExecs, callSleeps, callLast, callTransient, callRetries0, callRlh0,
    \* the logical calls started through _execute_with_backoff in the run
    calls,
    \* observations of the run
    yielded, processed, listRequests, aborted,
    \* failures the environment may still inject in this run
    budget,
    \* _save_message: the part of the current message being saved, the
    \* message directories made, the attachment files written
    partIdx, store, attFiles,
    \* main(): the record in the status file, Dashboard.stats, the summary
    \* logged, the exit status, whether create_archive has made an archive
    statusFile, dashStats, summary, exitCode, archived,
    \* StatusWriter: the path of the status file, the directory (name ->
    \* file), the files' contents, the writer inside write_status, a
    \* reader of the status file and what it has read
    status_path, fsNames, fsData, writer, reader, observed,
    \* one call of sanitize_filename: its arguments and its result
    fnInput, fnMax, fnResult,
    \* observations of the loop body of download_all: what it has done for
    \* the message being processed, in order, and the invocations of the
    \* progress callback in the run
    steps, callbacks

cfgVars == <<max_retries, max_results, delete_after_download,
             requests_per_second, include_attachments, archive_enabled,
             has_callback, mode, pages, ids, mail, min_interval>>
limVars == <<last_request_time, now, nReturns, firstReturn, prevReturn,
             lastReturn, limiterSleeps>>
genVars == <<pageIdx, idx, count>>
callVars == <<callExecs, callSleeps, callLast, callTransient,
              callRetries0, callRlh0, calls>>
runVars == <<yielded, processed, listRequests, aborted>>
persistVars == <<partIdx, store, attFiles>>
mainVars == <<statusFile, dashStats, summary, exitCode, archived>>
swVars == <<status_path, fsNames, fsData, writer, reader, observed>>
fnVars == <<fnInput, fnMax, fnResult>>
sideVars == <<swVars, fnVars>>
obsVars == <<steps, callbacks>>
vars == <<cfgVars, limVars, pc, op, attempt, delay, genVars, stats,
          callVars, runVars, budget, persistVars, mainVars, sideVars,
          obsVars>>

----------------------------------------------------------------------------
(* Bounds of the model *)

\* max_retries of a single-message run
MaxRetriesBound == 2
\* max_retries of a run over a listing: none, or RunRetries
RunRetries == 1
\* pages of the provider's listing
MaxPages == 2
\* summaries per page
MaxPageSize == 2
\* summaries of the whole listing
MaxTotal == 3
\* bits of a float's significand (53 in CPython)
Precision == 3
\* resolution of the clock
TicksPerSecond == 5
\* ticks the clock may idle between calls
MaxTime == 12
\* calls of wait_if_needed in a limiter scenario
MaxCalls == 10
\* ticks a sleep may last longer than asked
MaxOversleep == 1
\* characters of a file name given to sanitize_filename
MaxNameLen == 6
\* max_length given to sanitize_filename
MaxLengthBound == 3
\* attachment parts of a message
MaxParts == 3
\* calls of write_status in a writer scenario
MaxWrites == 3
\* pieces json.dump writes a record in
RecordChunks == 2
\* failures the environment injects in one run
MaxFaults == 2

----------------------------------------------------------------------------
(* Small helpers *)

RECURSIVE Pow2(_)
Pow2(n) == IF n = 0 THEN 1 ELSE 2 * Pow2(n - 1)

RECURSIVE SumSeq(_)
SumSeq(s) == IF s = <<>> THEN 0 ELSE Head(s) + SumSeq(Tail(s))

Min(a, b) == IF a <= b THEN a ELSE b

IsPrefix(s, t) == Len(s) <= Len(t) /\ SubSeq(t, 1, Len(s)) = s

\* <<1, ..., n>>
Iota(n) == [i \in 1..n |-> i]

Max(a, b) == IF a >= b THEN a ELSE b

----------------------------------------------------------------------------
(* Strings: sequences of characters *)

\* s[:n] of Python, n negative included
SliceTo(s, n) ==
    IF n >= 0 THEN SubSeq(s, 1, Min(n, Len(s)))
    ELSE SubSeq(s, 1, Max(Len(s) + n, 0))

\* s.strip(chars)
Strip(s, chars) ==
    LET keep == { i \in 1..Len(s) : s[i] \notin chars }
    IN  IF keep = {} THEN <<>>
        ELSE SubSeq(s, CHOOSE i \in keep : \A j \in keep : i <= j,
                       CHOOSE i \in keep : \A j \in keep : j <= i)

\* position of the last c in s, 0 if there is none (s.rfind(c) + 1)
LastIndex(s, c) ==
    LET at == { i \in 1..Len(s) : s[i] = c }
    IN  IF at = {} THEN 0 ELSE CHOOSE i \in at : \A j \in at : j <= i

\* os.path.splitext of a name without separator: the extension starts at
\* the last dot, unless only dots come before it
SplitExt(p) ==
    LET dot == LastIndex(p, ".")
    IN  IF dot > 0 /\ \E i \in 1..(dot - 1) : p[i] # "."
        THEN [name |-> SubSeq(p, 1, dot - 1), ext |-> SubSeq(p, dot, Len(p))]
        ELSE [name |-> p, ext |-> <<>>]

\* str(n) for a natural number n
DigitChars == <<"0", "1", "2", "3", "4", "5", "6", "7", "8", "9">>
RECURSIVE Str(_)
Str(n) ==
    IF n < 10 THEN <<DigitChars[n + 1]>>
    ELSE Str(n \div 10) \o <<DigitChars[(n % 10) + 1]>>

----------------------------------------------------------------------------
(* sanitize_filename *)

\* unsafe_chars = '<>:"/\\|?*\x00'
UnsafeCharsNoNul == {"<", ">", ":", "\"", "/", "\\", "|", "?", "*"}
UnsafeChars == {"<", ">", ":", "\"", "/", "\\", "|", "?", "*", "NUL"}

\* return filename or 'unnamed'
Unnamed == <<"u", "n", "n", "a", "m", "e", "d">>

\* sanitize_filename(filename, max_length)
sanitize_filename(filename, max_length) ==
    LET replaced == [i \in 1..Len(filename) |->
                        IF filename[i] \in UnsafeChars THEN "_"
                        ELSE filename[i]]
        split == SplitExt(replaced)
        truncated ==
            IF Len(replaced) > max_length
            THEN SliceTo(split.name, max_length - Len(split.ext) - 3)
                    \o <<".", ".", ".">> \o split.ext
            ELSE replaced
        stripped == Strip(truncated, {".", " "})
    IN  IF stripped = <<>> THEN Unnamed ELSE stripped

----------------------------------------------------------------------------
(* The provider's listing (users().messages().list) *)

\* number of summaries listed before page p
PageStart(p) == SumSeq(SubSeq(pages, 1, p - 1))

\* results.get('messages', []) of page p: the ids, in provider order
PageItems(p) == [i \in 1..pages[p] |-> PageStart(p) + i]

\* results.get('nextPageToken') of page p is set
HasTokenNever(p) == FALSE
HasToken(p) == p < Len(pages)

TotalAvailable == SumSeq(pages)

\* no page but the last is empty
NoEmptyPage == \A p \in 1..(Len(pages) - 1) : pages[p] > 0

Listings ==
    { s \in UNION { [1..n -> 0..MaxPageSize] : n \in 1..MaxPages } :
        SumSeq(s) <= MaxTotal }

----------------------------------------------------------------------------
(* RateLimiter *)

\* the clock at program start, later than any interval after 1970
Epoch == 2 * TicksPerSecond

\* requests_per_second values whose interval is a whole number of ticks
RpsValues == {0} \cup { r \in 1..TicksPerSecond : TicksPerSecond % r = 0 }

\* RateLimiter.__init__: 1.0 / requests_per_second if > 0 else 0
MinIntervalNoDisable(rps) ==
    IF rps > 0 THEN TicksPerSecond \div rps ELSE TicksPerSecond
MinInterval(rps) == IF rps > 0 THEN TicksPerSecond \div rps ELSE 0

\* sleep_time = self.min_interval - elapsed
SleepTimeShort(interval, elapsed) == interval - elapsed - 1
SleepTime(interval, elapsed) == interval - elapsed

\* RateLimiter.wait_if_needed, from call to return; `extra` is the time the
\* call takes beyond the sleep it asks for
wait_if_needed(extra) ==
    IF min_interval <= 0
    THEN /\ UNCHANGED <<last_request_time, now, limiterSleeps>>
         /\ nReturns' = nReturns + 1
         /\ firstReturn' = IF nReturns = 0 THEN now ELSE firstReturn
         /\ prevReturn' = lastReturn
         /\ lastReturn' = now
    ELSE LET current_time == now
             elapsed == current_time - last_request_time
             sleeps == elapsed < min_interval
             sleep_time == IF sleeps THEN SleepTime(min_interval, elapsed) ELSE 0
             after == current_time + sleep_time + extra
         IN  /\ now' = after
             /\ last_request_time' = after
             /\ limiterSleeps' = limiterSleeps + (IF sleeps THEN 1 ELSE 0)
             /\ nReturns' = nReturns + 1
             /\ firstReturn' = IF nReturns = 0 THEN after ELSE firstReturn
             /\ prevReturn' = lastReturn
             /\ lastReturn' = after

----------------------------------------------------------------------------
(* _execute_with_backoff *)

Statuses == {200, 404, 429, 500, 503}

\* error.resp.status in [429, 500, 503]
IsTransientWide(s) == s \in {404, 429, 500, 503}
IsTransient(s) == s \in {429, 500, 503}

\* max_retries = self.config.max_retries
ExecMaxRetriesOff == max_retries + 1
ExecMaxRetries == max_retries

\* if attempt < max_retries
RetryAllowedAlways(a) == TRUE
RetryAllowedEarly(a) == a + 1 < ExecMaxRetries
RetryAllowed(a) == a < ExecMaxRetries

\* Floats are counted in units of 2^-Precision.  random.random() is
\* k / 2^Precision for an integer 0 <= k < 2^Precision.
RandomValues == 0..(Pow2(Precision) - 1)

\* the float nearest to x, ties to even, for 0 <= x < 2: below 1 every
\* multiple of the unit is a float, from 1 on every second one
RoundNearestEven(x) ==
    IF x < Pow2(Precision) \/ x % 2 = 0 THEN x
    ELSE IF ((x - 1) \div 2) % 2 = 0 THEN x - 1 ELSE x + 1

\* 0.5 + random.random()
JitterFactorWide(k) == RoundNearestEven(Pow2(Precision) + k)
JitterFactor(k) == RoundNearestEven(Pow2(Precision - 1) + k)

\* delay = base_delay * (2 ** attempt); delay = delay * (0.5 + random.random())
\* base_delay = 1.0, and scaling by a power of two is exact
BackoffDelay(a, k) == Pow2(a) * JitterFactor(k)

\* a request executed at once, without the limiter
StartCallDirect(o, st) ==
    /\ pc' = "exec"
    /\ op' = o
    /\ attempt' = 0
    /\ delay' = 0
    /\ stats' = st
    /\ callExecs' = 0
    /\ callSleeps' = 0
    /\ callLast' = 0
    /\ callTransient' = TRUE
    /\ callRetries0' = st.retries
    /\ callRlh0' = st.rate_limit_hits
    /\ calls' = calls + 1

\* a logical call begins: for attempt in range(max_retries + 1)
StartCall(o, st) ==
    /\ pc' = "wait"
    /\ op' = o
    /\ attempt' = 0
    /\ delay' = 0
    /\ stats' = st
    /\ callExecs' = 0
    /\ callSleeps' = 0
    /\ callLast' = 0
    /\ callTransient' = TRUE
    /\ callRetries0' = st.retries
    /\ callRlh0' = st.rate_limit_hits
    /\ calls' = calls + 1

----------------------------------------------------------------------------
(* get_messages (a generator) *)

\* if self.config.max_results and count >= self.config.max_results
\* (max_results = 0 stands for None: config.py reads `int(...) or None`)
CapReachedLate(c) == max_results # 0 /\ c > max_results
CapReached(c) == max_results # 0 /\ c >= max_results

\* a generator that runs ahead: it requests the next page before it
\* yields the summaries of the page it has
GenAdvanceEager(p, i, c, st) ==
    IF HasToken(p)
    THEN [kind |-> "list", pageIdx |-> p + 1, idx |-> 0, count |-> c,
          stats |-> st]
    ELSE IF i < Len(PageItems(p)) /\ ~CapReached(c)
    THEN [kind |-> "yield", pageIdx |-> p, idx |-> i + 1, count |-> c,
          stats |-> st]
    ELSE [kind |-> "return", pageIdx |-> p, idx |-> i, count |-> c,
          stats |-> st]

\* The generator runs on from item i of page p with count c: the for loop
\* over the page, the cap check before each yield, and after the page the
\* update of total_emails and the continuation token.
\* It stops at the next yield, at the next list request, or returns.
GenAdvance(p, i, c, st) ==
    IF i < Len(PageItems(p))
    THEN IF CapReached(c)
         THEN [kind |-> "return", pageIdx |-> p, idx |-> i, count |-> c,
               stats |-> st]
         ELSE [kind |-> "yield", pageIdx |-> p, idx |-> i + 1, count |-> c,
               stats |-> st]
    ELSE LET st2 == [st EXCEPT !.total_emails = c]
         IN  IF HasToken(p)
             THEN [kind |-> "list", pageIdx |-> p + 1, idx |-> 0,
                   count |-> c, stats |-> st2]
             ELSE [kind |-> "return", pageIdx |-> p, idx |-> i, count |-> c,
                   stats |-> st2]

\* download_all's for loop takes what the generator produced: a summary
\* (the loop body starts with get_message_detail), or the end of the
\* iteration (download_all returns get_stats()); a list request blocks the
\* generator inside _execute_with_backoff
Continue(g) ==
    /\ pageIdx' = g.pageIdx
    /\ idx' = g.idx
    /\ count' = g.count
    /\ CASE g.kind = "yield" ->
              /\ yielded' = Append(yielded, PageItems(g.pageIdx)[g.idx])
              /\ UNCHANGED listRequests
              /\ StartCall("get", g.stats)
         [] g.kind = "list" ->
              /\ listRequests' = listRequests + 1
              /\ UNCHANGED yielded
              /\ StartCall("list", g.stats)
         [] g.kind = "return" ->
              /\ pc' = "done"
              /\ op' = "none"
              /\ stats' = g.stats
              /\ UNCHANGED <<attempt, delay, callVars, yielded, listRequests>>

\* msg_metadata['id'] of the summary being processed
CurrentIdFirst == PageItems(pageIdx)[1]
CurrentId == PageItems(pageIdx)[idx]

\* the loop body is over (tag: how); the for loop resumes the generator
\* after its yield: count += 1, then the next item
EndOfMessage(tag, st) ==
    /\ processed' = Append(processed, [id |-> CurrentId, result |-> tag])
    /\ steps' = <<>>
    /\ UNCHANGED aborted
    /\ Continue(GenAdvance(pageIdx, idx, count + 1, st))

\* except Exception as e (download_all): the classes it catches
HandlerCatchesHttpOnly(exc) == exc = "HttpError"
HandlerCatches(exc) ==
    exc \in {"HttpError", "OSError", "RuntimeError", "ValueError",
             "UnboundLocalError"}

\* an exception of class exc leaves the loop body at step `where`
PerMessageFailure(exc, where, tag, st) ==
    IF HandlerCatches(exc)
    THEN EndOfMessage(tag, [st EXCEPT !.errors = @ + 1])
    ELSE /\ pc' = "raised"
         /\ aborted' = where
         /\ stats' = st
         /\ UNCHANGED <<op, attempt, delay, genVars, callVars, yielded,
                        processed, listRequests, steps>>

\* a loop body that deletes whatever the configuration says
AfterCallbackAlways(st, done) ==
    /\ StartCall("delete", st)
    /\ steps' = Append(done, "delete")
    /\ UNCHANGED <<genVars, runVars>>

\* after the progress callback: if self.config.delete_after_download;
\* done: what the loop body has done for the message so far
AfterCallback(st, done) ==
    IF delete_after_download
    THEN /\ StartCall("delete", st)
         /\ steps' = Append(done, "delete")
         /\ UNCHANGED <<genVars, runVars>>
    ELSE EndOfMessage("ok", st)

----------------------------------------------------------------------------
(* The messages of the provider (users().messages().get) *)

\* Date headers: one that email.utils.parsedate_to_datetime accepts, the
\* empty string (the header is absent), and one it rejects
DateHeaders == {"d1", "", "garbage"}

\* the time parsedate_to_datetime reads from an acceptable header
ParsedTime(date_str) == 1

\* parsedate_to_datetime(date_str) raises
ParseRaises(date_str) == date_str # "d1"

\* parse_email_date(date_str): the parsed time, or datetime.now() when the
\* parser raises; `raised` tells whether the function itself raises
parse_email_date_strict(date_str) ==
    [raised |-> ParseRaises(date_str), value |-> ParsedTime(date_str)]
parse_email_date(date_str) ==
    IF ParseRaises(date_str)
    THEN [raised |-> FALSE, value |-> now]
    ELSE [raised |-> FALSE, value |-> ParsedTime(date_str)]

\* message ids of the provider: 16 hexadecimal digits in the service, here
\* 9 characters, which is enough to tell msg_id from msg_id[:8]; the i-th
\* listed message of a run whose ids differ in their first character
SerialId(i) == Str(i) \o <<"0", "0", "0", "0", "0", "0", "0", "0">>

\* a message with a Date header parsedate_to_datetime accepts and no
\* attachment
PlainMessage == [date |-> "d1", subject |-> <<"s">>, parts |-> <<>>]

\* part.get('filename') of the attachment parts
AttachmentNames ==
    { <<"a", ".", "b">>, <<"a", "_", "1", ".", "b">>, <<"a">> }

\* an attachment part: with inline data ("inline"), with an attachmentId
\* ("remote"), or with neither ("nodata")
Parts ==
    [filename : AttachmentNames, kind : {"inline"}]
        \cup [filename : {<<"a", ".", "b">>}, kind : {"remote", "nodata"}]

\* part['body'].get('size', 0)
AttachmentSize == 2

\* messages without attachment, of any Date header
BareMessages ==
    { [date |-> d, subject |-> <<"s">>, parts |-> <<>>] : d \in DateHeaders }

\* messages with up to n attachment parts
MessagesWith(n) ==
    [date : {"d1"}, subject : {<<"s">>},
     parts : UNION { [1..k -> Parts] : k \in 0..n }]

----------------------------------------------------------------------------
(* StatusWriter (src/src/status_writer.py) *)

\* file names are sequences of tokens, "." among them
StatusJson == <<"status", ".", "json">>

\* PurePath.suffix: from the last dot of the name, unless that dot is the
\* first or the last character
Suffix(name) ==
    LET dots == { i \in 1..Len(name) : name[i] = "." }
        last == CHOOSE i \in dots : \A j \in dots : j <= i
    IN  IF dots = {} \/ last = 1 \/ last = Len(name)
        THEN <<>>
        ELSE SubSeq(name, last, Len(name))

\* PurePath.with_suffix(suffix): the name with its suffix replaced
WithSuffix(name, suffix) ==
    SubSeq(name, 1, Len(name) - Len(Suffix(name))) \o suffix

\* temp_file = self.status_file.with_suffix('.tmp')
TempFile(path) == WithSuffix(path, <<".", "tmp">>)

\* status files: the default name, a name without suffix, a name whose
\* suffix is .tmp
StatusPaths ==
    { StatusJson, <<"status">>, <<"status", ".", "tmp">> }

\* the writer is not inside write_status; rec: the calls made so far,
\* good: the last call that returned without exception
WriterIdle == [pc |-> "idle", fd |-> 0, rec |-> 0, good |-> 0]

\* the reader has no file open
ReaderIdle == [pc |-> "idle", fd |-> 0]

----------------------------------------------------------------------------
(* Initial states *)

\* GmailClient.__init__: self._stats
ZeroStats ==
    [total_emails |-> 0, downloaded_emails |-> 0, total_attachments |-> 0,
     total_size_bytes |-> 0, errors |-> 0, rate_limit_hits |-> 0,
     retries |-> 0]

\* the status file before its first write: no record
NoRecord == [status |-> "none", stats |-> ZeroStats]

\* main() has not returned yet
Running == -1

\* no status file yet, nobody writes or reads it
SwIdle ==
    /\ fsNames = [n \in {status_path, TempFile(status_path)} |-> 0]
    /\ fsData = <<>>
    /\ writer = WriterIdle
    /\ reader = ReaderIdle
    /\ observed = {}

\* sanitize_filename is not being called on its own
FnIdle == fnInput = <<>> /\ fnMax = 0 /\ fnResult = <<>>

\* everything but the configuration, the provider and the thread's position
InitCommon ==
    /\ min_interval = MinInterval(requests_per_second)
    /\ last_request_time = 0
    /\ now = Epoch
    /\ nReturns = 0 /\ firstReturn = 0 /\ prevReturn = 0 /\ lastReturn = 0
    /\ limiterSleeps = 0
    /\ op = "none" /\ attempt = 0 /\ delay = 0
    /\ pageIdx = 0 /\ idx = 0 /\ count = 0
    /\ stats = ZeroStats
    /\ callExecs = 0 /\ callSleeps = 0 /\ callLast = 0
    /\ callTransient = TRUE /\ callRetries0 = 0 /\ callRlh0 = 0
    /\ calls = 0
    /\ yielded = <<>> /\ processed = <<>> /\ listRequests = 0
    /\ aborted = "none"
    /\ partIdx = 0 /\ store = <<>> /\ attFiles = <<>>
    /\ statusFile = NoRecord
    /\ dashStats = [status |-> "Initializing", stats |-> ZeroStats]
    /\ summary = [logged |-> FALSE, stats |-> ZeroStats]
    /\ exitCode = Running
    /\ archived = FALSE
    /\ steps = <<>> /\ callbacks = 0

\* main(): the client and the downloader are built, download_all is about
\* to be called; rate limiting is disabled (REQUESTS_PER_SECOND=0), so the
\* run never reads the clock.  The cap acts in the generator only, the
\* callback and the deletion in the loop body only: the cap is varied in
\* runs without callback and deletion, those two in runs without cap.
Init ==
    /\ max_retries \in {0, RunRetries}
    /\ max_results \in 0..MaxTotal
    /\ delete_after_download \in BOOLEAN
    /\ has_callback \in BOOLEAN
    /\ max_results # 0 => (~delete_after_download /\ ~has_callback)
    /\ requests_per_second = 0
    /\ include_attachments = TRUE
    /\ archive_enabled = FALSE
    /\ mode = "direct"
    /\ status_path = StatusJson
    /\ pages \in Listings
    /\ mail = [i \in 1..TotalAvailable |-> PlainMessage]
    /\ ids = [i \in DOMAIN mail |-> SerialId(i)]
    /\ budget = MaxFaults
    /\ pc = "init"
    /\ InitCommon
    /\ SwIdle
    /\ FnIdle

\* a run over one message of any Date header, with every max_retries up to
\* MaxRetriesBound and failures enough for a call to fail on every attempt
InitBackoff ==
    /\ max_retries \in 0..MaxRetriesBound
    /\ max_results = 0
    /\ delete_after_download \in BOOLEAN
    /\ has_callback \in BOOLEAN
    /\ requests_per_second = 0
    /\ include_attachments = TRUE
    /\ archive_enabled = FALSE
    /\ mode = "direct"
    /\ status_path = StatusJson
    /\ pages = <<1>>
    /\ mail \in [1..1 -> BareMessages]
    /\ ids = [i \in DOMAIN mail |-> SerialId(i)]
    /\ budget = MaxRetriesBound + 1
    /\ pc = "init"
    /\ InitCommon
    /\ SwIdle
    /\ FnIdle

----------------------------------------------------------------------------
(* The steps of a run *)

\* download_all: the for loop asks the generator for its first item; the
\* generator starts (page_token = None, count = 0) and lists the first page
DownloadAll ==
    /\ pc = "init"
    /\ Continue([kind |-> "list", pageIdx |-> 1, idx |-> 0, count |-> 0,
                 stats |-> stats])
    /\ UNCHANGED <<obsVars, budget, cfgVars, persistVars, mainVars, sideVars, limVars, processed, aborted>>

\* self.rate_limiter.wait_if_needed()
WaitIfNeeded ==
    /\ pc = "wait"
    /\ \E extra \in 0..MaxOversleep : wait_if_needed(extra)
    /\ pc' = "exec"
    /\ UNCHANGED <<obsVars, budget, cfgVars, persistVars, mainVars, sideVars, op, attempt, delay, genVars, stats, callVars,
                   runVars>>

\* return request.execute()
ExecuteOk ==
    /\ pc = "exec"
    /\ pc' = "returned"
    /\ callExecs' = callExecs + 1
    /\ callLast' = 200
    /\ callTransient' = FALSE
    /\ UNCHANGED <<obsVars, budget, cfgVars, persistVars, mainVars, sideVars, limVars, op, attempt, delay, genVars, stats,
                   callSleeps, callRetries0, callRlh0, calls, runVars>>

\* the counters of a retry after a failure of status s:
\* if error.resp.status == 429: rate_limit_hits += 1; then retries += 1
RetryStatsEveryHit(st, s) ==
    [st EXCEPT !.rate_limit_hits = @ + 1, !.retries = @ + 1]
\* a retry after a 429 counted as a rate limit hit only
RetryStatsHitOrRetry(st, s) ==
    [st EXCEPT !.rate_limit_hits = IF s = 429 THEN @ + 1 ELSE @,
               !.retries = IF s = 429 THEN @ ELSE @ + 1]
RetryStats(st, s) ==
    [st EXCEPT !.rate_limit_hits = IF s = 429 THEN @ + 1 ELSE @,
               !.retries = @ + 1]

\* request.execute() raises HttpError with status s; except HttpError
ExecuteFail ==
    /\ pc = "exec"
    /\ budget > 0
    /\ budget' = budget - 1
    /\ \E s \in Statuses \ {200} :
        /\ callExecs' = callExecs + 1
        /\ callLast' = s
        /\ callTransient' = (callTransient /\ IsTransient(s))
        /\ IF IsTransient(s) /\ RetryAllowed(attempt)
           THEN /\ \E k \in RandomValues : delay' = BackoffDelay(attempt, k)
                /\ stats' = RetryStats(stats, s)
                /\ pc' = "sleep"
           ELSE /\ pc' = "failed"
                /\ UNCHANGED <<delay, stats>>
    /\ UNCHANGED <<obsVars, cfgVars, persistVars, mainVars, sideVars, limVars, op, attempt, genVars, callSleeps,
                   callRetries0, callRlh0, calls, runVars>>

\* time.sleep(delay); continue.  The delay is dead after the sleep.
BackoffSleep ==
    /\ pc = "sleep"
    /\ pc' = "wait"
    /\ attempt' = attempt + 1
    /\ delay' = 0
    /\ callSleeps' = callSleeps + 1
    /\ UNCHANGED <<obsVars, budget, cfgVars, persistVars, mainVars, sideVars, limVars, op, genVars, stats, callExecs, callLast,
                   callTransient, callRetries0, callRlh0, calls, runVars>>

\* get_messages: results = self._execute_with_backoff(request, ...) returned
ListReturned ==
    /\ pc = "returned" /\ op = "list"
    /\ IF PageItems(pageIdx) = <<>>
       THEN Continue([kind |-> "return", pageIdx |-> pageIdx, idx |-> idx,
                      count |-> count, stats |-> stats])
       ELSE Continue(GenAdvance(pageIdx, 0, count, stats))
    /\ UNCHANGED <<obsVars, budget, cfgVars, persistVars, mainVars, sideVars, limVars, processed, aborted>>

\* get_messages: except HttpError: errors += 1; raise.  The exception
\* leaves the generator and the for loop of download_all.
ListFailed ==
    /\ pc = "failed" /\ op = "list"
    /\ stats' = [stats EXCEPT !.errors = @ + 1]
    /\ pc' = "raised"
    /\ aborted' = "list"
    /\ UNCHANGED <<obsVars, budget, cfgVars, persistVars, mainVars, sideVars, limVars, op, attempt, delay, genVars, callVars,
                   yielded, processed, listRequests>>

\* get_message_detail returned the message
GetReturned ==
    /\ pc = "returned" /\ op = "get"
    /\ pc' = "persist"
    /\ steps' = <<"fetch">>
    /\ UNCHANGED <<budget, cfgVars, persistVars, mainVars, sideVars, limVars, op, attempt, delay, genVars, stats,
                   callVars, runVars, callbacks>>

\* get_message_detail: except HttpError: errors += 1; raise
GetFailed ==
    /\ pc = "failed" /\ op = "get"
    /\ PerMessageFailure("HttpError", "get",
           IF IsTransient(callLast) THEN "other" ELSE "fetch_nt",
           [stats EXCEPT !.errors = @ + 1])
    /\ UNCHANGED <<budget, cfgVars, persistVars, mainVars, sideVars, limVars,
                   callbacks>>

\* a loop body that never invokes the callback
FinishSaveSilent(st) ==
    AfterCallback([st EXCEPT !.downloaded_emails = @ + 1],
                  steps \o <<"persist", "downloaded">>)

\* a save that starts the byte total again for every message
FinishSaveResets(st) ==
    LET st2 == [st EXCEPT !.downloaded_emails = @ + 1,
                          !.total_size_bytes = 0]
        done == steps \o <<"persist", "downloaded">>
    IN  IF has_callback
        THEN /\ pc' = "callback"
             /\ stats' = st2
             /\ steps' = done
             /\ UNCHANGED <<op, attempt, delay, genVars, callVars, runVars>>
        ELSE AfterCallback(st2, done)

\* increment_stat('downloaded_emails'), then the progress callback if any
FinishSave(st) ==
    LET st2 == [st EXCEPT !.downloaded_emails = @ + 1]
        done == steps \o <<"persist", "downloaded">>
    IN  IF has_callback
        THEN /\ pc' = "callback"
             /\ stats' = st2
             /\ steps' = done
             /\ UNCHANGED <<op, attempt, delay, genVars, callVars, runVars>>
        ELSE AfterCallback(st2, done)

\* _process_parts: part i of the current message is done
AfterPart(i, st) ==
    IF i < Len(mail[CurrentId].parts)
    THEN /\ pc' = "part"
         /\ partIdx' = i + 1
         /\ stats' = st
         /\ UNCHANGED <<op, attempt, delay, genVars, callVars, runVars, steps>>
    ELSE /\ partIdx' = 0
         /\ FinishSave(st)

\* sanitize_filename(subject, max_length=50) and msg_id[:8]
SubjectMaxLength == 50
IdPrefixLength == 8

\* msg_dir = date_path / f"{date.strftime('%H%M%S')}_{safe_subject}_{msg_id[:8]}":
\* the time the path is made of (year, month, day, HHMMSS) and the rest of
\* the directory name
msg_dir(date, subject, msg_id) ==
    [time |-> date,
     name |-> <<"_">> \o sanitize_filename(subject, SubjectMaxLength)
                  \o <<"_">> \o SliceTo(msg_id, IdPrefixLength)]

\* self._save_message(message) up to the metadata file: the Date header
\* is parsed, the message directory made (mkdir(parents=True,
\* exist_ok=True)), metadata.json written
SaveMessage ==
    /\ pc = "persist"
    /\ LET date == parse_email_date(mail[CurrentId].date)
       IN  \/ /\ ~date.raised
              /\ store' = Append(store,
                     [id |-> CurrentId, date |-> date.value,
                      dir |-> msg_dir(date.value, mail[CurrentId].subject,
                                      ids[CurrentId])])
              /\ AfterPart(0, stats)
              /\ UNCHANGED <<budget, attFiles>>
           \/ /\ date.raised
              /\ PerMessageFailure("ValueError", "persist", "other", stats)
              /\ UNCHANGED <<budget, persistVars>>
           \/ /\ budget > 0
              /\ budget' = budget - 1
              /\ PerMessageFailure("OSError", "persist", "other", stats)
              /\ UNCHANGED persistVars
    /\ UNCHANGED <<cfgVars, mainVars, sideVars, limVars, callbacks>>

\* sanitize_filename(filename): max_length has its default
DefaultMaxLength == 200

\* the names in the attachments directory of message id
ExistingNames(id) ==
    { attFiles[i].name : i \in { j \in 1..Len(attFiles) : attFiles[j].id = id } }

\* name, ext = filename.rsplit('.', 1) if '.' in filename else (filename, '')
\* new_filename = f"{name}_{counter}.{ext}" if ext else f"{filename}_{counter}"
Numbered(filename, counter) ==
    LET dot == LastIndex(filename, ".")
        name == SubSeq(filename, 1, dot - 1)
        ext == SubSeq(filename, dot + 1, Len(filename))
    IN  IF dot > 0 /\ ext # <<>>
        THEN name \o <<"_">> \o Str(counter) \o <<".">> \o ext
        ELSE filename \o <<"_">> \o Str(counter)

\* while save_path.exists(): ... counter += 1
RECURSIVE FreeName(_, _, _)
FreeName(filename, counter, existing) ==
    IF Numbered(filename, counter) \notin existing
    THEN Numbered(filename, counter)
    ELSE FreeName(filename, counter + 1, existing)

\* save_path when the loop is left
SavePathOverwrite(filename, existing) == filename
SavePath(filename, existing) ==
    IF filename \notin existing THEN filename
    ELSE FreeName(filename, 1, existing)

\* _save_attachment from `attachments_dir = ...` on: the file is opened
\* under a free name; f.write(content) raises UnboundLocalError when no
\* branch has bound content, else the two counters are incremented
WriteAttachment(part, bound) ==
    LET filename == sanitize_filename(part.filename, DefaultMaxLength)
        save_path == SavePath(filename, ExistingNames(CurrentId))
    IN  /\ attFiles' = Append(attFiles, [id |-> CurrentId, src |-> filename,
                                         name |-> save_path,
                                         written |-> bound])
        /\ IF bound
           THEN AfterPart(partIdx,
                    [stats EXCEPT !.total_attachments = @ + 1,
                                  !.total_size_bytes = @ + AttachmentSize])
                /\ UNCHANGED store
           ELSE /\ PerMessageFailure("UnboundLocalError", "persist",
                                     "other", stats)
                /\ partIdx' = 0
                /\ UNCHANGED store

\* _save_part of the next part: an attachment goes to _save_attachment,
\* which downloads it first if it has an attachmentId
SavePart ==
    /\ pc = "part"
    /\ LET part == mail[CurrentId].parts[partIdx]
       IN  IF ~include_attachments
           THEN AfterPart(partIdx, stats) /\ UNCHANGED <<store, attFiles>>
           ELSE IF part.kind = "remote"
           THEN StartCall("attachment", stats)
                /\ UNCHANGED <<genVars, runVars, persistVars, steps>>
           ELSE WriteAttachment(part, part.kind = "inline")
    /\ UNCHANGED <<budget, cfgVars, mainVars, sideVars, limVars, callbacks>>

\* the attachment was downloaded: content = base64.urlsafe_b64decode(data)
AttachmentReturned ==
    /\ pc = "returned" /\ op = "attachment"
    /\ WriteAttachment(mail[CurrentId].parts[partIdx], TRUE)
    /\ UNCHANGED <<budget, cfgVars, mainVars, sideVars, limVars, callbacks>>

\* the download raised: except Exception: increment_stat('errors'); return
AttachmentFailed ==
    /\ pc = "failed" /\ op = "attachment"
    /\ AfterPart(partIdx, [stats EXCEPT !.errors = @ + 1])
    /\ UNCHANGED <<store, attFiles>>
    /\ UNCHANGED <<budget, cfgVars, mainVars, sideVars, limVars, callbacks>>

\* StatusWriter.write_status as the writing thread sees it: the record
\* replaces the one in the status file, or something fails and the
\* exception is swallowed (except Exception: logger.warning)
write_status(status, st) ==
    \/ /\ statusFile' = [status |-> status, stats |-> st]
       /\ UNCHANGED budget
    \/ /\ budget > 0
       /\ budget' = budget - 1
       /\ UNCHANGED statusFile

\* the callback download_all got: main.progress_callback in headless
\* mode, run_live's progress_callback in dashboard mode
RunCallback(st) ==
    CASE mode = "headless" ->
              /\ write_status("running", st)
              /\ UNCHANGED dashStats
      [] mode = "dashboard" ->
              /\ dashStats' = [dashStats EXCEPT !.stats = st]
              /\ UNCHANGED <<statusFile, budget>>
      [] OTHER -> UNCHANGED <<statusFile, dashStats, budget>>

\* a status writer without its try/except: a failed write leaves the
\* callback as an exception
ProgressCallbackUnguarded ==
    /\ pc = "callback"
    /\ callbacks' = callbacks + 1
    /\ \/ /\ IF mode = "headless"
             THEN statusFile' = [status |-> "running", stats |-> stats]
                      /\ UNCHANGED <<budget, dashStats>>
             ELSE RunCallback(stats)
          /\ AfterCallback(stats, Append(steps, "callback"))
       \/ /\ mode \in {"direct", "headless"}
          /\ budget > 0
          /\ budget' = budget - 1
          /\ UNCHANGED <<statusFile, dashStats>>
          /\ PerMessageFailure("RuntimeError", "callback", "other", stats)
    /\ UNCHANGED <<cfgVars, persistVars, summary, exitCode, archived,
                   sideVars, limVars>>

\* progress_callback(self.client.get_stats()); a callback of some other
\* caller may raise
ProgressCallback ==
    /\ pc = "callback"
    /\ callbacks' = callbacks + 1
    /\ \/ /\ RunCallback(stats)
          /\ AfterCallback(stats, Append(steps, "callback"))
       \/ /\ mode = "direct"
          /\ budget > 0
          /\ budget' = budget - 1
          /\ UNCHANGED <<statusFile, dashStats>>
          /\ PerMessageFailure("RuntimeError", "callback", "other", stats)
    /\ UNCHANGED <<cfgVars, persistVars, summary, exitCode, archived,
                   sideVars, limVars>>

\* delete_message returned
DeleteReturned ==
    /\ pc = "returned" /\ op = "delete"
    /\ EndOfMessage("ok", stats)
    /\ UNCHANGED <<budget, cfgVars, persistVars, mainVars, sideVars, limVars,
                   callbacks>>

\* delete_message: except HttpError: errors += 1; raise
DeleteFailed ==
    /\ pc = "failed" /\ op = "delete"
    /\ PerMessageFailure("HttpError", "delete", "other",
           [stats EXCEPT !.errors = @ + 1])
    /\ UNCHANGED <<budget, cfgVars, persistVars, mainVars, sideVars, limVars,
                   callbacks>>

Next ==
    \/ DownloadAll
    \/ WaitIfNeeded
    \/ ExecuteOk
    \/ ExecuteFail
    \/ BackoffSleep
    \/ ListReturned
    \/ ListFailed
    \/ GetReturned
    \/ GetFailed
    \/ SaveMessage
    \/ ProgressCallback
    \/ DeleteReturned
    \/ DeleteFailed

Spec == Init /\ [][Next]_vars

SpecBackoff == InitBackoff /\ [][Next]_vars

\* download_all is about to be called with no cap, a callback and deletion
\* (the longest loop body), on any listing; failures enough for a call to
\* fail on every attempt
InitFair ==
    /\ max_retries = RunRetries
    /\ max_results = 0
    /\ delete_after_download = TRUE
    /\ has_callback = TRUE
    /\ requests_per_second = 0
    /\ include_attachments = TRUE
    /\ archive_enabled = FALSE
    /\ mode = "direct"
    /\ status_path = StatusJson
    /\ pages \in Listings
    /\ mail = [i \in 1..TotalAvailable |-> PlainMessage]
    /\ ids = [i \in DOMAIN mail |-> SerialId(i)]
    /\ budget = RunRetries + 1
    /\ pc = "init"
    /\ InitCommon
    /\ SwIdle
    /\ FnIdle

\* the run goes on while it can: the thread is never suspended for good,
\* every remote call, sleep, write and callback it is in returns or raises
SpecFair == InitFair /\ [][Next]_vars /\ WF_vars(Next)

----------------------------------------------------------------------------
(* One RateLimiter instance, called again and again *)

\* RateLimiter(config.requests_per_second), limiting enabled or disabled;
\* the caller is about to call wait_if_needed
InitLimiter ==
    /\ max_retries = 0
    /\ max_results = 0
    /\ delete_after_download = FALSE
    /\ has_callback = FALSE
    /\ requests_per_second \in RpsValues
    /\ include_attachments = TRUE
    /\ archive_enabled = FALSE
    /\ mode = "direct"
    /\ status_path = StatusJson
    /\ pages = <<0>>
    /\ mail = <<>>
    /\ ids = [i \in DOMAIN mail |-> SerialId(i)]
    /\ budget = 0
    /\ pc = "limiter"
    /\ InitCommon
    /\ SwIdle
    /\ FnIdle

\* time passes between two calls
Tick ==
    /\ pc = "limiter"
    /\ now < Epoch + MaxTime
    /\ now' = now + 1
    /\ UNCHANGED <<obsVars, cfgVars, persistVars, mainVars, sideVars, last_request_time, nReturns, firstReturn,
                   prevReturn, lastReturn, limiterSleeps, pc, op, attempt,
                   delay, genVars, stats, callVars, runVars, budget>>

\* one call of wait_if_needed, from call to return
LimiterCall ==
    /\ pc = "limiter"
    /\ nReturns < MaxCalls
    /\ \E extra \in 0..MaxOversleep : wait_if_needed(extra)
    /\ UNCHANGED <<obsVars, cfgVars, persistVars, mainVars, sideVars, pc, op, attempt, delay, genVars, stats, callVars,
                   runVars, budget>>

NextLimiter == Tick \/ LimiterCall

SpecLimiter == InitLimiter /\ [][NextLimiter]_vars

----------------------------------------------------------------------------
(* main(): a run in batch, headless or dashboard mode *)

Modes == {"batch", "headless", "dashboard"}

\* main() is past authentication; the listing may fail once, or one
\* message, or one write of the status file
InitMain ==
    /\ max_retries \in {0, RunRetries}
    /\ max_results = 0
    /\ delete_after_download \in BOOLEAN
    /\ mode \in Modes
    /\ has_callback = (mode # "batch")
    /\ requests_per_second = 0
    /\ include_attachments = TRUE
    /\ archive_enabled \in BOOLEAN
    /\ status_path = StatusJson
    /\ pages \in Listings
    /\ mail = [i \in 1..TotalAvailable |-> PlainMessage]
    /\ ids = [i \in DOMAIN mail |-> SerialId(i)]
    /\ budget = 1
    /\ pc = "main"
    /\ InitCommon
    /\ SwIdle
    /\ FnIdle

\* main() up to the call of download_all: the 'starting' record in
\* headless mode; in dashboard mode run_live up to download_func(...)
MainStart ==
    /\ pc = "main"
    /\ pc' = "init"
    /\ CASE mode = "headless" ->
              /\ write_status("starting", stats)
              /\ UNCHANGED dashStats
         [] mode = "dashboard" ->
              /\ dashStats' = [dashStats EXCEPT !.status = "Downloading"]
              /\ UNCHANGED <<statusFile, budget>>
         [] OTHER -> UNCHANGED <<statusFile, dashStats, budget>>
    /\ UNCHANGED <<obsVars, cfgVars, limVars, op, attempt, delay, genVars, stats,
                   callVars, runVars, persistVars, summary, exitCode, archived,
                   sideVars>>

\* the thread is inside download_all (or, in dashboard mode, inside the
\* Live block before it)
InRun == pc \in {"init", "wait", "exec", "sleep", "returned", "failed",
                 "persist", "callback"}

\* the rest of main() after the download: with archive_enabled,
\* create_archive makes the archive, or raises and main()'s
\* `except Exception` returns 1; then main() returns 0
ArchiveStep ==
    IF archive_enabled
    THEN \/ /\ archived' = TRUE
            /\ exitCode' = 0
         \/ /\ exitCode' = 1
            /\ UNCHANGED archived
    ELSE /\ exitCode' = 0
         /\ UNCHANGED archived

\* KeyboardInterrupt: no `except Exception` and no `except HttpError`
\* catches it.  run_live catches it, marks the dashboard and returns
\* self.stats, and main() goes on with the archive step and returns 0; in
\* the other modes main()'s own handler logs a warning and returns 130.
Interrupt ==
    /\ mode \in Modes
    /\ InRun
    /\ pc' = "exited"
    /\ aborted' = "interrupt"
    /\ IF mode = "dashboard"
       THEN /\ dashStats' = [dashStats EXCEPT !.status = "Cancelled"]
            /\ ArchiveStep
       ELSE /\ exitCode' = 130
            /\ UNCHANGED <<dashStats, archived>>
    /\ UNCHANGED <<obsVars, cfgVars, limVars, op, attempt, delay, genVars, stats,
                   callVars, yielded, processed, listRequests, budget,
                   persistVars, statusFile, summary, sideVars>>

\* download_all returned its stats: run_live shows them as 'Complete'; the
\* other modes log the summary, headless writes the 'complete' record;
\* then the archive step, and main() returns 0
MainReturn ==
    /\ mode \in Modes
    /\ pc = "done"
    /\ pc' = "exited"
    /\ ArchiveStep
    /\ CASE mode = "dashboard" ->
              /\ dashStats' = [status |-> "Complete", stats |-> stats]
              /\ UNCHANGED <<summary, statusFile, budget>>
         [] mode = "headless" ->
              /\ summary' = [logged |-> TRUE, stats |-> stats]
              /\ write_status("complete", stats)
              /\ UNCHANGED dashStats
         [] OTHER ->
              /\ summary' = [logged |-> TRUE, stats |-> stats]
              /\ UNCHANGED <<statusFile, dashStats, budget>>
    /\ UNCHANGED <<obsVars, cfgVars, limVars, op, attempt, delay, genVars, stats,
                   callVars, runVars, persistVars, sideVars>>

\* download_all raised (the listing failed): nothing between the call and
\* main()'s `except Exception` catches it; main() logs "Fatal error" and
\* returns 1
MainExcept ==
    /\ mode \in Modes
    /\ pc = "raised"
    /\ pc' = "exited"
    /\ exitCode' = 1
    /\ UNCHANGED <<obsVars, cfgVars, limVars, op, attempt, delay, genVars, stats,
                   callVars, runVars, budget, persistVars, statusFile,
                   dashStats, summary, archived, sideVars>>

NextMain ==
    \/ MainStart
    \/ DownloadAll
    \/ WaitIfNeeded
    \/ ExecuteOk
    \/ ExecuteFail
    \/ BackoffSleep
    \/ ListReturned
    \/ ListFailed
    \/ GetReturned
    \/ GetFailed
    \/ SaveMessage
    \/ ProgressCallback
    \/ DeleteReturned
    \/ DeleteFailed
    \/ Interrupt
    \/ MainReturn
    \/ MainExcept

SpecMain == InitMain /\ [][NextMain]_vars

----------------------------------------------------------------------------
(* A run over one message with attachments *)

\* download_all is about to be called on a mailbox of one message, of any
\* attachment parts; one failure may be injected
InitPersist ==
    /\ max_retries = RunRetries
    /\ max_results = 0
    /\ delete_after_download \in BOOLEAN
    /\ has_callback = FALSE
    /\ requests_per_second = 0
    /\ include_attachments \in BOOLEAN
    /\ archive_enabled = FALSE
    /\ mode = "direct"
    /\ status_path = StatusJson
    /\ pages = <<1>>
    /\ mail \in [1..1 -> MessagesWith(MaxParts)]
    /\ ids = [i \in DOMAIN mail |-> SerialId(i)]
    /\ budget = 1
    /\ pc = "init"
    /\ InitCommon
    /\ SwIdle
    /\ FnIdle

NextPersist ==
    \/ DownloadAll
    \/ WaitIfNeeded
    \/ ExecuteOk
    \/ ExecuteFail
    \/ BackoffSleep
    \/ ListReturned
    \/ ListFailed
    \/ GetReturned
    \/ GetFailed
    \/ SaveMessage
    \/ SavePart
    \/ AttachmentReturned
    \/ AttachmentFailed
    \/ DeleteReturned
    \/ DeleteFailed

SpecPersist == InitPersist /\ [][NextPersist]_vars

----------------------------------------------------------------------------
(* One StatusWriter, and a monitor that reads the status file *)

\* StatusWriter(status_file) is built, no status file exists yet; one step
\* of a write may fail
InitStatus ==
    /\ max_retries = 0
    /\ max_results = 0
    /\ delete_after_download = FALSE
    /\ has_callback = FALSE
    /\ requests_per_second = 0
    /\ include_attachments = TRUE
    /\ archive_enabled = FALSE
    /\ mode = "headless"
    /\ status_path \in StatusPaths
    /\ pages = <<0>>
    /\ mail = <<>>
    /\ ids = [i \in DOMAIN mail |-> SerialId(i)]
    /\ budget = 1
    /\ pc = "status"
    /\ InitCommon
    /\ SwIdle
    /\ FnIdle

\* what the steps of the writer and of the reader leave alone
StatusFrame ==
    UNCHANGED <<obsVars, cfgVars, limVars, pc, op, attempt, delay, genVars, stats,
                callVars, runVars, persistVars, mainVars, fnVars,
                status_path>>

\* write_status up to open(temp_file, 'w'): the temp file is created, or
\* truncated if a file of that name exists; if open fails the exception
\* is swallowed and write_status returns
WriteOpen ==
    /\ pc = "status"
    /\ writer.pc = "idle"
    /\ writer.rec < MaxWrites
    /\ LET temp_file == TempFile(status_path)
           rec == writer.rec + 1
       IN  \/ /\ IF fsNames[temp_file] # 0
                 THEN /\ fsData' = [fsData EXCEPT ![fsNames[temp_file]] =
                                        [rec |-> rec, len |-> 0]]
                      /\ UNCHANGED fsNames
                 ELSE /\ fsData' = Append(fsData, [rec |-> rec, len |-> 0])
                      /\ fsNames' = [fsNames EXCEPT ![temp_file] =
                                         Len(fsData) + 1]
              /\ writer' = [writer EXCEPT !.pc = "writing",
                                          !.fd = fsNames'[temp_file],
                                          !.rec = rec]
              /\ UNCHANGED budget
           \/ /\ budget > 0
              /\ budget' = budget - 1
              /\ writer' = [writer EXCEPT !.rec = rec]
              /\ UNCHANGED <<fsNames, fsData>>
    /\ UNCHANGED <<reader, observed>>
    /\ StatusFrame

\* json.dump(status_data, f, indent=2): the next piece of the record; if
\* a write fails the file is closed as it is and the exception swallowed
WriteChunk ==
    /\ pc = "status"
    /\ writer.pc = "writing"
    /\ fsData[writer.fd].len < RecordChunks
    /\ \/ /\ fsData' = [fsData EXCEPT ![writer.fd].len = @ + 1]
          /\ UNCHANGED <<writer, budget>>
       \/ /\ budget > 0
          /\ budget' = budget - 1
          /\ writer' = [writer EXCEPT !.pc = "idle", !.fd = 0]
          /\ UNCHANGED fsData
    /\ UNCHANGED <<fsNames, reader, observed>>
    /\ StatusFrame

\* the file is closed; temp_file.replace(self.status_file) renames it over
\* the status file in one step (onto itself if the names are equal); if
\* the rename fails the exception is swallowed
WriteReplace ==
    /\ pc = "status"
    /\ writer.pc = "writing"
    /\ fsData[writer.fd].len = RecordChunks
    /\ LET temp_file == TempFile(status_path)
       IN  \/ /\ fsNames' = IF temp_file = status_path THEN fsNames
                            ELSE [fsNames EXCEPT ![status_path] = writer.fd,
                                                 ![temp_file] = 0]
              /\ writer' = [writer EXCEPT !.pc = "idle", !.fd = 0,
                                          !.good = writer.rec]
              /\ UNCHANGED budget
           \/ /\ budget > 0
              /\ budget' = budget - 1
              /\ writer' = [writer EXCEPT !.pc = "idle", !.fd = 0]
              /\ UNCHANGED fsNames
    /\ UNCHANGED <<fsData, reader, observed>>
    /\ StatusFrame

\* the monitor opens the status file, if there is one
ReaderOpen ==
    /\ pc = "status"
    /\ reader.pc = "idle"
    /\ fsNames[status_path] # 0
    /\ reader' = [pc |-> "open", fd |-> fsNames[status_path]]
    /\ UNCHANGED <<fsNames, fsData, writer, observed, budget>>
    /\ StatusFrame

\* the monitor reads the file it has opened
ReaderRead ==
    /\ pc = "status"
    /\ reader.pc = "open"
    /\ observed' = observed \cup {fsData[reader.fd]}
    /\ reader' = ReaderIdle
    /\ UNCHANGED <<fsNames, fsData, writer, budget>>
    /\ StatusFrame

NextStatus ==
    \/ WriteOpen
    \/ WriteChunk
    \/ WriteReplace
    \/ ReaderOpen
    \/ ReaderRead

SpecStatus == InitStatus /\ [][NextStatus]_vars

----------------------------------------------------------------------------
(* sanitize_filename, called once on any name *)

\* the strings of at most n characters of A
StringsOver(A, n) == UNION { [1..k -> A] : k \in 0..n }

\* characters a name may hold besides letters, dots and blanks
SpecialChars == {"<", ">", ":", "\"", "/", "\\", "|", "?", "*", "NUL"}

\* names of letters, dots, blanks and one of the special characters
Filenames ==
    UNION { StringsOver({"a", ".", " ", c}, MaxNameLen) : c \in SpecialChars }

InitSanitize ==
    /\ max_retries = 0
    /\ max_results = 0
    /\ delete_after_download = FALSE
    /\ has_callback = FALSE
    /\ requests_per_second = 0
    /\ include_attachments = TRUE
    /\ archive_enabled = FALSE
    /\ mode = "direct"
    /\ status_path = StatusJson
    /\ pages = <<0>>
    /\ mail = <<>>
    /\ ids = [i \in DOMAIN mail |-> SerialId(i)]
    /\ budget = 0
    /\ pc = "sanitize"
    /\ InitCommon
    /\ SwIdle
    /\ fnInput \in Filenames
    /\ fnMax \in 1..MaxLengthBound
    /\ fnResult = <<>>

Sanitize ==
    /\ pc = "sanitize"
    /\ pc' = "sanitized"
    /\ fnResult' = sanitize_filename(fnInput, fnMax)
    /\ UNCHANGED <<obsVars, cfgVars, limVars, op, attempt, delay, genVars, stats,
                   callVars, runVars, budget, persistVars, mainVars, swVars,
                   fnInput, fnMax>>

NextSanitize == Sanitize

SpecSanitize == InitSanitize /\ [][NextSanitize]_vars

----------------------------------------------------------------------------
(* A run over messages of any subjects and ids *)

\* Subject headers: a plain one, and two that differ in an unsafe character
Subjects == { <<"s">>, <<"a", "/", "b">>, <<"a", "_", "b">> }

\* ids the provider may give: two that differ after their first 8
\* characters only, and one that differs before
IdPool ==
    { <<"1", "8", "c", "0", "f", "f", "e", "e", "0">>,
      <<"1", "8", "c", "0", "f", "f", "e", "e", "1">>,
      <<"2", "8", "c", "0", "f", "f", "e", "e", "0">> }

\* messages without attachment, of one Date header and any subject
SubjectMessages == [date : {"d1"}, subject : Subjects, parts : {<<>>}]

\* download_all is about to be called on a mailbox of two or three
\* messages, no two of the same id; one failure may be injected
InitDirs ==
    /\ max_retries = RunRetries
    /\ max_results = 0
    /\ delete_after_download \in BOOLEAN
    /\ has_callback \in BOOLEAN
    /\ requests_per_second = 0
    /\ include_attachments = TRUE
    /\ archive_enabled = FALSE
    /\ mode = "direct"
    /\ status_path = StatusJson
    /\ pages \in { s \in Listings : SumSeq(s) \in 2..MaxTotal }
    /\ mail \in [1..TotalAvailable -> SubjectMessages]
    /\ ids \in { f \in [1..TotalAvailable -> IdPool] :
                    \A i, j \in 1..TotalAvailable : i # j => f[i] # f[j] }
    /\ budget = 1
    /\ pc = "init"
    /\ InitCommon
    /\ SwIdle
    /\ FnIdle

SpecDirs == InitDirs /\ [][Next]_vars

----------------------------------------------------------------------------
(* Properties *)

\* ids of the messages whose loop body is over, in the order it ended
ProcessedIds == [i \in 1..Len(processed) |-> processed[i].id]

\* number of processed messages with result tag t
NumResult(t) == Cardinality({ i \in 1..Len(processed) : processed[i].result = t })

\* C1: an exception raised while fetching, persisting, reporting progress
\* for or deleting one message never ends download_all: download_all raises
\* only out of the listing, and every summary the lister yielded gets
\* processed, in the order yielded.
C1_FailureNeverAborts ==
    /\ pc = "raised" => aborted = "list"
    /\ IsPrefix(ProcessedIds, yielded)
    /\ Len(yielded) - Len(processed) <= 1
    /\ pc \in {"done", "raised"} => ProcessedIds = yielded

\* C1 witness: a run that ended normally after the first message failed and
\* a later one was downloaded
C1_Witness ==
    /\ pc = "done"
    /\ Len(processed) >= 2
    /\ processed[1].result # "ok"
    /\ processed[2].result = "ok"
    /\ stats.downloaded_emails >= 1

\* C2: in a run over N listed messages of which F fail in the detail fetch
\* with a non-transient remote error (and nothing else fails), download_all
\* returns downloaded = N - F and errors = F.
C2_ErrorsEqualFailedFetches ==
    (/\ pc = "done"
     /\ \A i \in 1..Len(processed) : processed[i].result \in {"ok", "fetch_nt"})
    => /\ stats.downloaded_emails = Len(yielded) - NumResult("fetch_nt")
       /\ stats.errors = NumResult("fetch_nt")

\* C3: one invocation of _execute_with_backoff executes the request at most
\* max_retries + 1 times, whatever the outcomes.
C3_AtMostMaxRetriesPlusOne == callExecs <= max_retries + 1

\* C3 witness: a call that used all its max_retries + 1 = 3 executions
C3_Witness ==
    /\ max_retries = 2
    /\ callExecs = 3
    /\ pc = "failed"

\* C4: a call that fails on every attempt with a transient status is
\* executed exactly max_retries + 1 times, and then the last failure is
\* raised to the caller.
C4_AlwaysTransientExactly ==
    /\ (pc = "failed" /\ callTransient)
          => callExecs = max_retries + 1 /\ callLast \in {429, 500, 503}
    /\ (callTransient /\ callExecs = max_retries + 1)
          => pc \notin {"wait", "exec", "sleep", "returned"}

\* C4 witness: two retries configured, three transient failures, raised
C4_Witness ==
    /\ pc = "failed"
    /\ callTransient
    /\ max_retries = 2
    /\ callExecs = 3
    /\ callSleeps = 2

\* C5: a non-transient failure ends the call at once: it is raised with no
\* further execution, no backoff sleep and no change of retries or
\* rate_limit_hits; when it comes on the first attempt the request was
\* executed exactly once.
C5_NonTransientPropagates ==
    callLast \notin {0, 200, 429, 500, 503} =>
        /\ pc \notin {"wait", "exec", "sleep", "returned"}
        /\ callExecs = callSleeps + 1
        /\ stats.retries = callRetries0 + callSleeps
        /\ stats.rate_limit_hits <= callRlh0 + callSleeps
        /\ attempt = 0 =>
              /\ callExecs = 1
              /\ callSleeps = 0
              /\ stats.retries = callRetries0
              /\ stats.rate_limit_hits = callRlh0

\* C5 witness: retries were configured, the first attempt got a 404
C5_Witness ==
    /\ pc = "failed"
    /\ callLast = 404
    /\ callExecs = 1
    /\ max_retries >= 1
    /\ budget >= 1

\* C6: with requests_per_second > 0, two consecutive returns of
\* wait_if_needed are at least 1/requests_per_second apart, and n calls
\* take at least (n-1)/requests_per_second from the first return to the
\* last.
C6_MinSpacing ==
    (requests_per_second > 0 /\ nReturns >= 2) =>
        /\ (lastReturn - prevReturn) * requests_per_second >= TicksPerSecond
        /\ (lastReturn - firstReturn) * requests_per_second
               >= (nReturns - 1) * TicksPerSecond

\* C6 witness: 10 calls back to back at the highest rate, each but the
\* first slept, in exactly 9 intervals
C6_Witness ==
    /\ requests_per_second = TicksPerSecond
    /\ nReturns = 10
    /\ limiterSleeps = 9
    /\ lastReturn - firstReturn = 9

\* C7: with requests_per_second = 0 wait_if_needed never sleeps and returns
\* at once: it neither reads nor moves the clock.
C7_DisabledNeverSleeps ==
    requests_per_second = 0 =>
        /\ limiterSleeps = 0
        /\ last_request_time = 0
        /\ nReturns >= 1 => lastReturn <= now

\* C7 witness: limiting disabled, two calls returned at the same instant
C7_Witness ==
    /\ requests_per_second = 0
    /\ pc = "limiter"
    /\ nReturns >= 2
    /\ lastReturn = prevReturn

\* C8: with max_results = m >= 1 and the listing cut into non-empty pages
\* in any way, get_messages yields exactly min(m, total) summaries, the
\* first ones in provider order.
C8_YieldsMinCapTotal ==
    /\ yielded = Iota(Len(yielded))
    /\ (max_results >= 1 /\ NoEmptyPage) =>
          /\ Len(yielded) <= Min(max_results, TotalAvailable)
          /\ pc = "done" => Len(yielded) = Min(max_results, TotalAvailable)

\* C8 witness: 3 summaries on 2 pages, cap 2, the run over with 2 yielded
C8_Witness ==
    /\ pc = "done"
    /\ max_results = 2
    /\ Len(pages) = 2
    /\ TotalAvailable = 3
    /\ Len(yielded) = 2

\* the page that holds the n-th summary of the listing
PageOf(n) == CHOOSE p \in 1..Len(pages) :
                 PageStart(p) < n /\ n <= PageStart(p) + pages[p]

\* C9: once get_messages has yielded max_results summaries it issues no
\* further list request: the last page requested is the one that holds the
\* max_results-th summary.  (Stated for runs in which no page is empty and
\* nothing has failed.)
C9_NoListRequestAfterCap ==
    (/\ max_results >= 1
     /\ Len(yielded) = max_results
     /\ \A p \in 1..Len(pages) : pages[p] > 0
     /\ budget = MaxFaults) =>
        /\ pageIdx = PageOf(max_results)
        /\ listRequests = PageOf(max_results)

\* 0.5 * base_delay * 2^n and 1.5 * base_delay * 2^n in units of 2^-Precision
DelayLow(n) == Pow2(n) * Pow2(Precision - 1)
DelayHigh(n) == 3 * Pow2(n) * Pow2(Precision - 1)

C11_AllDownloaded ==
    (/\ pc = "done"
     /\ max_results = 0
     /\ budget = MaxFaults
     /\ \A p \in 1..Len(pages) : pages[p] > 0) =>
        /\ stats.downloaded_emails = TotalAvailable
        /\ stats.errors = 0
        /\ listRequests = Len(pages)
        /\ ProcessedIds = Iota(TotalAvailable)

\* C11 witness: 3 messages on pages of 2 and 1, no cap, nothing failed
C11_Witness ==
    /\ pc = "done"
    /\ pages = <<2, 1>>
    /\ max_results = 0
    /\ budget = MaxFaults
    /\ stats.downloaded_emails = 3
    /\ stats.errors = 0
    /\ listRequests = 2

\* the run's counters have been reported: in the logged summary, in the
\* record of the status file, or on the dashboard
StatsReported ==
    \/ summary.logged /\ summary.stats = stats
    \/ mode = "headless" /\ statusFile.stats = stats
    \/ mode = "dashboard" /\ dashStats.stats = stats

\* the run is reported as cancelled: the status shown by the dashboard, the
\* status of the record in the status file (headless), the exit status and
\* warning of a batch run
CancelledReported ==
    \/ mode = "dashboard" /\ dashStats.status = "Cancelled"
    \/ mode = "headless" /\ statusFile.status = "cancelled"
    \/ mode = "batch" /\ exitCode = 130

\* C12: after a user interrupt during the run (here: after a message was
\* downloaded), in every mode, the run has stopped with a distinct
\* cancelled status reported and the stats accumulated so far reported.
C12_InterruptReportsCancelled ==
    (pc = "exited" /\ aborted = "interrupt" /\ stats.downloaded_emails >= 1) =>
        /\ CancelledReported
        /\ StatsReported

\* C13: when download_all raises out of the listing after at least one
\* message was processed, main() exits non-zero and the counters
\* accumulated up to then have been reported.
C13_FailureReportsStats ==
    (pc = "exited" /\ aborted = "list" /\ Len(processed) >= 1) =>
        /\ exitCode # 0
        /\ StatsReported

\* C16: whatever the name and the max length, the result of
\* sanitize_filename holds none of < > : " / \ | ? * nor the null byte.
C16_NoUnsafeChar ==
    pc = "sanitized" =>
        \A i \in 1..Len(fnResult) :
            fnResult[i] \notin {"<", ">", ":", "\"", "/", "\\", "|", "?",
                                "*", "NUL"}

\* C16 witness: a name with a null byte and a slash, both replaced
C16_Witness ==
    /\ pc = "sanitized"
    /\ fnInput = <<"a", "NUL", "a">>
    /\ fnResult = <<"a", "_", "a">>
    /\ fnMax = 3

\* C17: whatever the name and the max length L, the result of
\* sanitize_filename is at most L characters long (stated for L >= 3, the
\* length of the ellipsis, and with the fallback name 'unnamed' left
\* aside).
C17_LengthAtMostMax ==
    (pc = "sanitized" /\ fnResult # Unnamed /\ fnMax >= 3) =>
        Len(fnResult) <= fnMax

\* the files opened before the i-th in the same attachments directory
EarlierFiles(i) == { j \in 1..(i - 1) : attFiles[j].id = attFiles[i].id }

\* the earlier ones of them that have the same sanitized name
EarlierSame(i) == { j \in EarlierFiles(i) : attFiles[j].src = attFiles[i].src }

\* C14 as claimed: the k-th attachment with the same sanitized name
\* base.ext is written to base.ext for k = 0 and to base_k.ext for k >= 1,
\* and the files of one directory are pairwise distinct.
C14_KthName ==
    \A i \in 1..Len(attFiles) :
        LET k == Cardinality(EarlierSame(i))
        IN  /\ attFiles[i].name =
                  IF k = 0 THEN attFiles[i].src
                  ELSE Numbered(attFiles[i].src, k)
            /\ \A j \in EarlierFiles(i) : attFiles[j].name # attFiles[i].name

\* C14 amended: no attachment is written over a file of its directory: it
\* goes to its sanitized name base.ext if that is free, else to base_j.ext
\* for the least j >= 1 that is free; when every file already there came
\* from the same name, the k-th one goes to base.ext (k = 0), base_k.ext
\* (k >= 1).
C14_FreeName ==
    \A i \in 1..Len(attFiles) :
        LET f == attFiles[i]
            before == { attFiles[j].name : j \in EarlierFiles(i) }
            k == Cardinality(EarlierSame(i))
        IN  /\ f.name \notin before
            /\ \/ f.name = f.src
               \/ /\ f.src \in before
                  /\ \E j \in 1..i :
                        /\ f.name = Numbered(f.src, j)
                        /\ \A h \in 1..(j - 1) : Numbered(f.src, h) \in before
            /\ EarlierSame(i) = EarlierFiles(i) =>
                  f.name = IF k = 0 THEN f.src ELSE Numbered(f.src, k)

\* C14 witness: three attachments a.b of one message, saved as a.b, a_1.b
\* and a_2.b
C14_Witness ==
    /\ pc = "done"
    /\ Len(attFiles) = 3
    /\ \A i \in 1..3 : attFiles[i].src = <<"a", ".", "b">> /\ attFiles[i].written
    /\ attFiles[1].name = <<"a", ".", "b">>
    /\ attFiles[2].name = <<"a", "_", "1", ".", "b">>
    /\ attFiles[3].name = <<"a", "_", "2", ".", "b">>
    /\ stats.total_attachments = 3

\* C15: a message whose Date header cannot be parsed (the empty string
\* included) does not fail for that: its directory is made under the time
\* datetime.now() gave, and in a run where nothing else fails it is counted
\* as downloaded and not as an error.
C15_UnparsableDateUsesNow ==
    mail[1].date \in {"", "garbage"} =>
        /\ \A i \in 1..Len(store) : store[i].date = now
        /\ Len(processed) >= 1 /\ budget = MaxRetriesBound + 1 =>
              /\ processed[1].result = "ok"
              /\ Len(store) = 1
              /\ store[1].id = 1 /\ store[1].date = now
              /\ stats.downloaded_emails = 1
              /\ stats.errors = 0

\* C15 witness: the message without Date header was downloaded, under the
\* current time
C15_Witness ==
    /\ pc = "done"
    /\ mail[1].date = ""
    /\ budget = MaxRetriesBound + 1
    /\ Len(store) = 1
    /\ store[1].id = 1 /\ store[1].date = Epoch
    /\ stats.downloaded_emails = 1
    /\ stats.errors = 0

C19_InPaginationOrder ==
    /\ yielded = Iota(Len(yielded))
    /\ ProcessedIds = Iota(Len(processed))
    /\ Len(processed) <= Len(yielded)
    /\ Len(yielded) <= Len(processed) + 1
    /\ (op = "get" /\ pc \in {"wait", "exec", "sleep", "returned", "failed"})
          => Len(yielded) = Len(processed) + 1

\* C19 witness: three messages on pages of 2 and 1 processed in order, the
\* second one counted as failed
C19_Witness ==
    /\ pc = "done"
    /\ pages = <<2, 1>>
    /\ ProcessedIds = <<1, 2, 3>>
    /\ processed[1].result = "ok"
    /\ processed[2].result # "ok"
    /\ processed[3].result = "ok"

\* C20: a reader of the status file never reads a partially written
\* record, whatever the interleaving with write_status, and when no write
\* is in progress the status file holds the complete record of the last
\* call that did not fail (a failed write leaves it in place).
C20_AtomicReplace ==
    /\ \A o \in observed : o.len = RecordChunks
    /\ (writer.pc = "idle" /\ writer.good > 0) =>
          /\ fsNames[status_path] # 0
          /\ fsData[fsNames[status_path]] =
                 [rec |-> writer.good, len |-> RecordChunks]

\* the directory of message id was made and, when attachments are enabled,
\* a file was written for every attachment part of the message
AllPersisted(id) ==
    /\ \E i \in 1..Len(store) : store[i].id = id
    /\ include_attachments =>
          Cardinality({ j \in 1..Len(attFiles) :
                          attFiles[j].id = id /\ attFiles[j].written })
              = Len(mail[id].parts)

\* C21: a delete request is issued for a message only if everything of the
\* message was persisted, every attachment included when attachments are
\* enabled: never for a message one of whose attachment downloads failed.
C21_DeleteOnlyIfAllPersisted ==
    op = "delete" => AllPersisted(CurrentId)

\* the steps of the loop body of download_all for one message, in order
StepOrder ==
    IF has_callback
    THEN <<"fetch", "persist", "downloaded", "callback", "delete">>
    ELSE <<"fetch", "persist", "downloaded", "delete">>

\* C22: for each message download_all fetches the detail, persists,
\* increments downloaded, invokes the progress callback and deletes, in
\* this order; a delete request is in flight only when
\* delete_after_download is configured and fetch, persist and callback of
\* the same message have returned, and never when the flag is off.
C22_StepsInOrder ==
    /\ IsPrefix(steps, StepOrder)
    /\ pc = "persist" => steps = <<"fetch">>
    /\ pc = "callback" => steps = <<"fetch", "persist", "downloaded">>
    /\ op = "delete" =>
          /\ delete_after_download
          /\ steps = StepOrder
          /\ Len(yielded) = Len(processed) + 1
          /\ stats.downloaded_emails >= 1
    /\ ~delete_after_download =>
          \A i \in 1..Len(steps) : steps[i] # "delete"

\* C22 witness: the delete of the second message has returned, after its
\* fetch, its persistence and its callback
C22_Witness ==
    /\ op = "delete" /\ pc = "returned"
    /\ has_callback
    /\ Len(processed) = 1
    /\ steps = <<"fetch", "persist", "downloaded", "callback", "delete">>
    /\ stats.downloaded_emails = 2

\* C23: total_emails follows the yields: while the j-th summary is being
\* processed the counter is j or, before the generator has resumed, j - 1,
\* and at the end of a run it equals the number of summaries yielded, a
\* run stopped by the cap in the middle of a page included.
C23_TotalFollowsYields ==
    /\ stats.total_emails \in {Len(yielded) - 1, Len(yielded)}
    /\ pc = "done" => stats.total_emails = Len(yielded)

\* C24: with no cap and no failure, get_messages requests every page of
\* the listing: it stops only at a response without continuation token,
\* whatever the number of summaries of a response (zero included).
C24_StopsOnlyWithoutToken ==
    (pc = "done" /\ max_results = 0 /\ budget = MaxFaults) =>
        /\ listRequests = Len(pages)
        /\ yielded = Iota(TotalAvailable)

\* C25: inside _execute_with_backoff a retry (a transient failure on an
\* attempt below max_retries) adds exactly one to retries, and one to
\* rate_limit_hits if and only if the status is 429; no other step of a
\* call moves either counter, so a call that ends after a attempts has
\* raised retries by exactly a - 1.
C25_RetryCounts ==
    [][LET retry == pc = "exec" /\ pc' = "sleep"
           hit == retry /\ callLast' = 429
       IN  /\ stats'.retries = stats.retries + (IF retry THEN 1 ELSE 0)
           /\ stats'.rate_limit_hits =
                  stats.rate_limit_hits + (IF hit THEN 1 ELSE 0)
           /\ retry => /\ attempt < max_retries
                       /\ callLast' \in {429, 500, 503}
           /\ (pc = "exec" /\ pc' \in {"returned", "failed"}) =>
                  stats'.retries = callRetries0 + callExecs' - 1]_vars

\* C25 witness: a call that succeeded on its third attempt, after a 429
\* and another transient failure: two retries, one rate limit hit
C25_Witness ==
    /\ pc = "returned"
    /\ callExecs = 3
    /\ stats.retries = callRetries0 + 2
    /\ stats.rate_limit_hits = callRlh0 + 1

\* C26 as claimed: with a progress callback supplied, the callback is
\* invoked once for each message the lister yields: at the end of a run
\* the invocations are as many as the messages processed.
C26_OncePerYielded ==
    (has_callback /\ pc = "done") => callbacks = Len(processed)

\* C26 amended: with a progress callback supplied, the callback is invoked
\* inside the loop body, once for each message fetched and persisted,
\* right after downloaded_emails is incremented, and not for a message
\* whose fetch or persistence failed: the invocations are as many as
\* downloaded_emails, at most one per message processed, and as many as
\* the messages processed when nothing failed.
C26_OncePerDownloaded ==
    /\ has_callback =>
          /\ callbacks + (IF pc = "callback" THEN 1 ELSE 0)
                = stats.downloaded_emails
          /\ callbacks <= Len(yielded)
          /\ (pc = "done" /\ budget = MaxFaults) => callbacks = Len(processed)
    /\ ~has_callback => callbacks = 0

\* C26 witness: a run over three messages of which the second failed: two
\* invocations
C26_Witness ==
    /\ has_callback
    /\ pc = "done"
    /\ Len(processed) = 3
    /\ processed[2].result # "ok"
    /\ callbacks = 2
    /\ stats.downloaded_emails = 2

\* the remote requests of a run
RemoteOps == {"list", "get", "attachment", "delete"}

\* C27: every remote request of a run (list, get, attachment, delete) is
\* issued through _execute_with_backoff: a request begins at attempt 0 in
\* front of the limiter, each execution of it comes right after a return
\* of wait_if_needed of the one RateLimiter, and a transient failure of
\* any of them below max_retries is retried after a sleep.
C27_AllThroughBackoff ==
    [][/\ (op' # op /\ op' # "none") =>
              /\ op' \in RemoteOps
              /\ pc' = "wait"
              /\ attempt' = 0
       /\ pc' = "exec" =>
              /\ pc = "wait"
              /\ op' = op
              /\ nReturns' = nReturns + 1
       /\ callExecs' = callExecs + 1 =>
              /\ pc = "exec"
              /\ op \in RemoteOps
              /\ pc' \in {"returned", "sleep", "failed"}
       /\ (pc = "exec" /\ IsTransient(callLast') /\ attempt < max_retries)
              => pc' = "sleep"
       /\ pc = "sleep" => (pc' = "wait" /\ attempt' = attempt + 1)]_vars

\* C27 witness: list, get, attachment and delete have each gone through
\* the limiter, one of them twice (it was retried)
C27_Witness ==
    /\ op = "delete" /\ pc = "returned"
    /\ nReturns = 5
    /\ stats.retries = 1
    /\ stats.total_attachments = 1
    /\ Len(attFiles) = 1

\* steps a call of _execute_with_backoff has left, its caller's handling
\* of the outcome included: each attempt waits, executes and, if retried,
\* sleeps
CallRank ==
    CASE pc = "wait" -> 3 * (max_retries - attempt) + 3
      [] pc = "exec" -> 3 * (max_retries - attempt) + 2
      [] pc = "sleep" -> 3 * (max_retries - attempt) + 1
      [] OTHER -> 1

\* steps of a whole call, and one more
CallCost == 3 * max_retries + 4

\* the most attachment parts a message has
MostParts ==
    IF mail = <<>> THEN 0
    ELSE LET n == { Len(mail[i].parts) : i \in DOMAIN mail }
         IN  CHOOSE m \in n : \A k \in n : k <= m

\* steps the loop body has left after the callback, after the parts,
\* after the detail fetch
AfterCallbackCost == CallCost
AfterPartsCost == 1 + AfterCallbackCost
PartCost == 1 + CallCost
AfterFetchCost == 1 + MostParts * PartCost + AfterPartsCost

\* steps of a whole loop body, and one more
MessageCost == CallCost + AfterFetchCost + 1

\* the thread is inside _execute_with_backoff, or its caller is about to
\* handle the outcome
InCall == pc \in {"wait", "exec", "sleep", "returned", "failed"}

\* steps the message being processed has left
MessageRank ==
    CASE InCall /\ op = "get" -> CallRank + AfterFetchCost
      [] pc = "persist" -> AfterFetchCost
      [] pc = "part" ->
            (MostParts - partIdx + 1) * PartCost + AfterPartsCost
      [] InCall /\ op = "attachment" ->
            CallRank + (MostParts - partIdx) * PartCost + AfterPartsCost
      [] pc = "callback" -> AfterPartsCost
      [] InCall /\ op = "delete" -> CallRank
      [] OTHER -> 0

\* a bound on the steps a run has left: the pages not requested yet, the
\* summaries not yielded yet, and what is in flight
Rank ==
    CASE pc = "init" ->
            1 + Len(pages) * CallCost + TotalAvailable * MessageCost
      [] pc \in {"done", "raised"} -> 0
      [] OTHER ->
            (Len(pages) - pageIdx) * CallCost
                + (TotalAvailable - Len(yielded)) * MessageCost
                + (IF InCall /\ op = "list" THEN CallRank ELSE MessageRank)

Terminated == pc \in {"done", "raised"}

\* C28: download_all returns or raises in the end, whatever the failures:
\* every step of a run lowers a bound on the steps still to come (no call
\* has more than max_retries + 1 attempts, no message more steps than its
\* parts ask for, no page is listed twice), and a run whose remote calls
\* and sleeps return does reach its end.
C28_Terminates ==
    /\ [][Rank' < Rank]_vars
    /\ [](Rank >= 0 /\ attempt <= max_retries /\ pageIdx <= Len(pages))
    /\ <>Terminated

\* C28 witness: a run over two pages has ended after a call failed on
\* every attempt and another message went through
C28_Witness ==
    /\ pc = "done"
    /\ max_retries = RunRetries
    /\ Len(pages) = 2
    /\ stats.retries >= 1
    /\ stats.errors >= 1
    /\ stats.downloaded_emails >= 1
    /\ Rank = 0

\* C29: at every invocation of the progress callback and in the stats
\* returned at the end of a run, downloaded_emails <= total_emails.
C29_DownloadedAtMostTotal ==
    pc \in {"callback", "done"} =>
        stats.downloaded_emails <= stats.total_emails

\* C30: the listing is lazy: while the list request of a page is in
\* flight every summary of the earlier pages has been yielded and its
\* loop body is over (downloaded and, when configured, deleted, or counted
\* as failed), and nothing of the page requested or of a later one has
\* been yielded.
C30_LazyListing ==
    (op = "list" /\ InCall) =>
        /\ Len(yielded) = PageStart(pageIdx)
        /\ ProcessedIds = yielded
        /\ steps = <<>>
        /\ listRequests = pageIdx

\* C30 witness: the second page is being requested after both messages of
\* the first were processed, one downloaded and deleted, one failed
C30_Witness ==
    /\ op = "list" /\ pc = "exec"
    /\ pageIdx = 2
    /\ pages[1] = 2
    /\ delete_after_download
    /\ Len(processed) = 2
    /\ processed[1].result = "ok"
    /\ processed[2].result # "ok"

\* C31: once the user has interrupted the download, in every mode, no
\* archive is made and main() does not exit with status 0.
C31_InterruptNeitherArchivesNorSucceeds ==
    (pc = "exited" /\ aborted = "interrupt") =>
        /\ ~archived
        /\ exitCode # 0

\* the step is a progress callback of a headless run in which the write of
\* the status file fails
StatusWriteFails ==
    /\ pc = "callback"
    /\ mode = "headless"
    /\ budget' < budget

\* C32: in headless mode, when the write of the status file fails inside
\* the progress callback, the callback returns normally: no counter
\* changes (errors is not incremented, the message stays counted as
\* downloaded) and the loop body goes on to the configured deletion, or
\* ends the message as processed when no deletion is configured.
C32_StatusFailureHarmless ==
    [][StatusWriteFails =>
          /\ stats'.errors = stats.errors
          /\ stats'.downloaded_emails = stats.downloaded_emails
          /\ statusFile' = statusFile
          /\ IF delete_after_download
             THEN /\ pc' = "wait"
                  /\ op' = "delete"
                  /\ steps' = Append(Append(steps, "callback"), "delete")
             ELSE /\ Len(processed') = Len(processed) + 1
                  /\ processed'[Len(processed')].result = "ok"]_vars

\* C32 witness: a headless run with deletion whose 'running' record was
\* never written (the file still holds 'starting') although a message was
\* downloaded, deleted and processed without any error counted
C32_Witness ==
    /\ mode = "headless"
    /\ delete_after_download
    /\ statusFile.status = "starting"
    /\ budget = 0
    /\ stats.downloaded_emails = 1
    /\ stats.errors = 0
    /\ Len(processed) = 1
    /\ processed[1].result = "ok"

\* C33: within one run, no two messages of distinct ids are persisted into
\* the same message directory (so that no metadata.json is overwritten by
\* another message's), whatever date, subject and id prefix they share.
C33_DistinctDirectories ==
    \A i, j \in 1..Len(store) :
        ids[store[i].id] # ids[store[j].id] => store[i].dir # store[j].dir

\* C34: in every reachable state of a run, rate_limit_hits <= retries, and
\* retries is at most max_retries times the number of logical calls
\* started through _execute_with_backoff.
C34_RetriesBounded ==
    /\ stats.rate_limit_hits <= stats.retries
    /\ stats.retries <= max_retries * calls

\* C34 witness: after two calls, the first of which used both its retries
\* (one of them after a 429) and the second one more, the counters are
\* 1 < 3 <= 2 * 2
C34_Witness ==
    /\ max_retries = 2
    /\ calls = 2
    /\ stats.retries = 3
    /\ stats.rate_limit_hits = 1
    /\ callRetries0 = 2

====
